---- MODULE Spec2Model ----
(***************************************************************************)
(* Reconcile-with-finalizer state machine of the two controllers of the    *)
(* repository: MyResourceReconciler (controller template) and              *)
(* GuestbookReconciler (internal/controller/guestbook_controller.go).      *)
(*                                                                         *)
(* One behaviour runs one controller manager (kind) against one resource   *)
(* key.  A Reconcile invocation is split at its blocking calls: Get,       *)
(* cleanup, Update, Status().Update, Recorder.Event.  Between two calls    *)
(* the API layer may create, edit or delete the resource and the worker    *)
(* may crash.                                                              *)
(***************************************************************************)
EXTENDS Integers, Sequences, FiniteSets, TLC

VARIABLES
  kind,      \* the controller this manager runs
  store,     \* the stored resource of the key
  rev,       \* the store's revision counter
  creates,   \* how often the key has been created
  failures,  \* cleanup failures since the resource was created
  queued,    \* a Reconcile Request for the key is waiting
  pc,        \* per worker: the blocking call it is about to make
  obj,       \* per worker: the local copy of the resource
  fetched,   \* per worker: the resource as r.Get returned it
  branch,    \* per worker: the state of the state machine it entered
  ret,       \* per worker: result and error of its last return
  trace,     \* per worker: the calls of its current invocation, with outcome
  events,    \* reasons recorded with the event recorder
  prev,      \* the last return for the key and the store as it left it
  ready,     \* per worker: what the readiness check of its invocation found
  sh         \* the run of scaffold_operator.sh

vars == <<kind, store, rev, creates, failures, queued, pc, obj, fetched,
          branch, ret, trace, events, prev, ready, sh>>

----------------------------------------------------------------------------
(* Bounds *)

MaxGen == 2

MaxCreates == 2

MaxCleanupFailures == 2

NumWorkers == 2

MaxOptions == 4

Workers == 1..NumWorkers

Kinds == {"MyResource", "Guestbook"}

----------------------------------------------------------------------------
(* Program constants *)

myFinalizerName == "myresource.example.com/finalizer"

TypeReady == "Ready"

TypeDegraded == "Degraded"

TypeAvailable == "Available"

ReadyRequeueSeconds == 300

NotReadyRequeueSeconds == 30

isReady == TRUE

----------------------------------------------------------------------------
(* Errors are chains of messages, outermost first; the nil error is <<>>. *)

NilErr == <<>>

ErrNotFound == <<"NotFound">>

ErrConflict == <<"Conflict">>

ErrServer == <<"ServerError">>

ErrCleanup == <<"CleanupFailed">>

IsNotFound(err) == err = ErrNotFound

IgnoreNotFound(err) == IF IsNotFound(err) THEN NilErr ELSE err

WrapStatusErr(err) == <<"failed to update status">> \o err

----------------------------------------------------------------------------
(* ctrl.Result *)

EmptyResult == [Requeue |-> FALSE, RequeueAfter |-> 0]

RequeueNow == [Requeue |-> TRUE, RequeueAfter |-> 0]

RequeueAfter(seconds) == [Requeue |-> FALSE, RequeueAfter |-> seconds]

----------------------------------------------------------------------------
(* The stored resource record. *)

NoObject ==
  [exists |-> FALSE, generation |-> 0, resourceVersion |-> 0,
   deleting |-> FALSE, finalizers |-> {}, conditions |-> <<>>,
   observedGeneration |-> 0]

NewObject(rv) ==
  [exists |-> TRUE, generation |-> 1, resourceVersion |-> rv,
   deleting |-> FALSE, finalizers |-> {}, conditions |-> <<>>,
   observedGeneration |-> 0]

ContainsFinalizer(o, f) == f \in o.finalizers

AddFinalizer(o, f) == [o EXCEPT !.finalizers = @ \cup {f}]

RemoveFinalizer(o, f) == [o EXCEPT !.finalizers = @ \ {f}]

----------------------------------------------------------------------------
(* Status conditions *)

Condition(type, status, reason, gen) ==
  [type |-> type, status |-> status, reason |-> reason,
   observedGeneration |-> gen]

CondIndex(conds, type) ==
  IF \E i \in 1..Len(conds) : conds[i].type = type
  THEN CHOOSE i \in 1..Len(conds) :
         /\ conds[i].type = type
         /\ \A j \in 1..(i - 1) : conds[j].type # type
  ELSE 0

FindStatusCondition(conds, type) ==
  IF CondIndex(conds, type) = 0 THEN <<>>
  ELSE <<conds[CondIndex(conds, type)]>>

SetStatusCondition(conds, c) ==
  IF CondIndex(conds, c.type) = 0
  THEN Append(conds, c)
  ELSE [conds EXCEPT ![CondIndex(conds, c.type)] = c]

----------------------------------------------------------------------------
(* The resource store (client.Client): optimistic concurrency on the       *)
(* resourceVersion; a write that changes nothing stores nothing.           *)

Persist(n) ==
  IF n = store THEN store
  ELSE IF n.deleting /\ n.finalizers = {} THEN NoObject
  ELSE [n EXCEPT !.resourceVersion = rev + 1]

(* a store that takes every write, whatever resourceVersion it carries *)
WriteError_NoVersionCheck(o, fail) ==
  IF fail THEN ErrServer
  ELSE IF ~store.exists THEN ErrNotFound
  ELSE NilErr

WriteError(o, fail) ==
  IF fail THEN ErrServer
  ELSE IF ~store.exists THEN ErrNotFound
  ELSE IF o.resourceVersion # store.resourceVersion THEN ErrConflict
  ELSE NilErr

ClientGet(fail) ==
  IF fail THEN [err |-> ErrServer, obj |-> NoObject]
  ELSE IF ~store.exists THEN [err |-> ErrNotFound, obj |-> NoObject]
  ELSE [err |-> NilErr, obj |-> store]

ClientUpdate(o, fail) ==
  IF WriteError(o, fail) # NilErr
  THEN [err |-> WriteError(o, fail), stored |-> store]
  ELSE [err |-> NilErr,
        stored |-> Persist([store EXCEPT !.finalizers = o.finalizers])]

ClientStatusUpdate(o, fail) ==
  IF WriteError(o, fail) # NilErr
  THEN [err |-> WriteError(o, fail), stored |-> store]
  ELSE [err |-> NilErr,
        stored |-> Persist([store EXCEPT
                              !.conditions = o.conditions,
                              !.observedGeneration = o.observedGeneration])]

(* For(&MyResource{}) / For(&Guestbook{}) without predicates: every change *)
(* of the stored object delivers a Reconcile Request for its key.          *)
Enqueues(old, new) == old # new

----------------------------------------------------------------------------
(* Local computation of the reconcilers between two blocking calls.  A     *)
(* plan names the next blocking call (next), the object as mutated so far  *)
(* and, when next = "done", the returned result and error.                 *)

Plan(b, next, o, result, err) ==
  [branch |-> b, next |-> next, obj |-> o, result |-> result, err |-> err]

(* updateStatus as in the patterns doc: the condition only *)
updateStatus_NoObservedGeneration(o, condition) ==
  [o EXCEPT !.conditions = SetStatusCondition(@, condition)]

(* updateStatus that appends the condition to the list *)
updateStatus_Appends(o, condition) ==
  [o EXCEPT !.conditions = Append(@, condition),
            !.observedGeneration = o.generation]

updateStatus(o, condition) ==
  [o EXCEPT !.conditions = SetStatusCondition(@, condition),
            !.observedGeneration = o.generation]

(* reconcileNormal that records the event and never writes the status *)
reconcileNormal_NoStatus(o, r) ==
  Plan("Reconciling", "event", o, EmptyResult, NilErr)

(* reconcileNormal that persists the status with r.Update *)
reconcileNormal_StatusViaUpdate(o, r) ==
  Plan("Reconciling", "update",
       updateStatus(o, Condition(TypeReady, "True", "ReconcileSuccess",
                                 o.generation)),
       EmptyResult, NilErr)

(* reconcileNormal whose Degraded condition carries no ObservedGeneration *)
reconcileNormal_DegradedUntagged(o, r) ==
  IF r
  THEN Plan("Reconciling", "status",
            updateStatus(o, Condition(TypeReady, "True",
                                      "ReconciliationSucceeded", o.generation)),
            EmptyResult, NilErr)
  ELSE Plan("Reconciling", "status",
            updateStatus(o, Condition(TypeDegraded, "True", "NotReady", 0)),
            EmptyResult, NilErr)

reconcileNormal(o, r) ==
  IF r
  THEN Plan("Reconciling", "status",
            updateStatus(o, Condition(TypeReady, "True",
                                      "ReconciliationSucceeded", o.generation)),
            EmptyResult, NilErr)
  ELSE Plan("Reconciling", "status",
            updateStatus(o, Condition(TypeDegraded, "True",
                                      "NotReady", o.generation)),
            EmptyResult, NilErr)

(* reconcileDelete that first reports the deletion in the status *)
reconcileDelete_StatusTerminating(o) ==
  Plan(IF ContainsFinalizer(o, myFinalizerName) THEN "DeletingCleanup"
       ELSE "DeletingNoFinalizer",
       "status",
       updateStatus(o, Condition(TypeReady, "False", "Terminating",
                                 o.generation)),
       EmptyResult, NilErr)

(* reconcileDelete without the ContainsFinalizer check around the cleanup *)
reconcileDelete_AlwaysCleanup(o) ==
  Plan("DeletingCleanup", "cleanup", o, EmptyResult, NilErr)

reconcileDelete(o) ==
  IF ContainsFinalizer(o, myFinalizerName)
  THEN Plan("DeletingCleanup", "cleanup", o, EmptyResult, NilErr)
  ELSE Plan("DeletingNoFinalizer", "done", o, EmptyResult, NilErr)

(* Reconcile that returns the not-found error like any other *)
MyReconcile_NotFoundIsError(got, r) ==
  IF got.err # NilErr
  THEN Plan("GetError", "done", got.obj, EmptyResult, got.err)
  ELSE IF got.obj.deleting
  THEN reconcileDelete(got.obj)
  ELSE IF ~ContainsFinalizer(got.obj, myFinalizerName)
  THEN Plan("AttachFinalizer", "update",
            AddFinalizer(got.obj, myFinalizerName), EmptyResult, NilErr)
  ELSE reconcileNormal(got.obj, r)

(* Reconcile that tests for the finalizer before the deletion timestamp *)
MyReconcile_AttachFirst(got, r) ==
  IF got.err # NilErr
  THEN IF IsNotFound(got.err)
       THEN Plan("NotFound", "done", got.obj, EmptyResult, NilErr)
       ELSE Plan("GetError", "done", got.obj, EmptyResult, got.err)
  ELSE IF ~ContainsFinalizer(got.obj, myFinalizerName)
  THEN Plan("AttachFinalizer", "update",
            AddFinalizer(got.obj, myFinalizerName), EmptyResult, NilErr)
  ELSE IF got.obj.deleting
  THEN reconcileDelete(got.obj)
  ELSE reconcileNormal(got.obj, r)

(* Reconcile without the deletion branch *)
MyReconcile_NoDeletionBranch(got, r) ==
  IF got.err # NilErr
  THEN IF IsNotFound(got.err)
       THEN Plan("NotFound", "done", got.obj, EmptyResult, NilErr)
       ELSE Plan("GetError", "done", got.obj, EmptyResult, got.err)
  ELSE IF ~ContainsFinalizer(got.obj, myFinalizerName)
  THEN Plan("AttachFinalizer", "update",
            AddFinalizer(got.obj, myFinalizerName), EmptyResult, NilErr)
  ELSE reconcileNormal(got.obj, r)

(* Reconcile that runs the cleanup for a resource that is gone *)
MyReconcile_NotFoundCleansUp(got, r) ==
  IF got.err # NilErr
  THEN IF IsNotFound(got.err)
       THEN Plan("NotFound", "cleanup", got.obj, EmptyResult, NilErr)
       ELSE Plan("GetError", "done", got.obj, EmptyResult, got.err)
  ELSE IF got.obj.deleting
  THEN reconcileDelete(got.obj)
  ELSE IF ~ContainsFinalizer(got.obj, myFinalizerName)
  THEN Plan("AttachFinalizer", "update",
            AddFinalizer(got.obj, myFinalizerName), EmptyResult, NilErr)
  ELSE reconcileNormal(got.obj, r)

(* Reconcile without step 3: normal reconciliation without the finalizer *)
MyReconcile_NoAttach(got, r) ==
  IF got.err # NilErr
  THEN IF IsNotFound(got.err)
       THEN Plan("NotFound", "done", got.obj, EmptyResult, NilErr)
       ELSE Plan("GetError", "done", got.obj, EmptyResult, got.err)
  ELSE IF got.obj.deleting
  THEN reconcileDelete(got.obj)
  ELSE reconcileNormal(got.obj, r)

MyReconcile(got, r) ==
  IF got.err # NilErr
  THEN IF IsNotFound(got.err)
       THEN Plan("NotFound", "done", got.obj, EmptyResult, NilErr)
       ELSE Plan("GetError", "done", got.obj, EmptyResult, got.err)
  ELSE IF got.obj.deleting
  THEN reconcileDelete(got.obj)
  ELSE IF ~ContainsFinalizer(got.obj, myFinalizerName)
  THEN Plan("AttachFinalizer", "update",
            AddFinalizer(got.obj, myFinalizerName), EmptyResult, NilErr)
  ELSE reconcileNormal(got.obj, r)

(* reconcileDelete that records Deleted before it persists the removal *)
AfterCleanup_EventBeforeUpdate(o, cerr) ==
  IF cerr # NilErr
  THEN Plan("DeletingCleanup", "done", o, EmptyResult, cerr)
  ELSE Plan("DeletingCleanup", "event",
            RemoveFinalizer(o, myFinalizerName), EmptyResult, NilErr)

(* reconcileDelete that returns after the cleanup, the finalizer in place *)
AfterCleanup_ReturnsEarly(o, cerr) ==
  Plan("DeletingCleanup", "done", o, EmptyResult, cerr)

(* reconcileDelete without the early return on a cleanup error *)
AfterCleanup_IgnoreError(o, cerr) ==
  Plan("DeletingCleanup", "update",
       RemoveFinalizer(o, myFinalizerName), EmptyResult, NilErr)

(* reconcileDelete that logs the cleanup error and returns nil *)
AfterCleanup_SwallowError(o, cerr) ==
  IF cerr # NilErr
  THEN Plan("DeletingCleanup", "done", o, EmptyResult, NilErr)
  ELSE Plan("DeletingCleanup", "update",
            RemoveFinalizer(o, myFinalizerName), EmptyResult, NilErr)

(* reconcileDelete that forgets RemoveFinalizer before r.Update *)
AfterCleanup_KeepFinalizer(o, cerr) ==
  IF cerr # NilErr
  THEN Plan("DeletingCleanup", "done", o, EmptyResult, cerr)
  ELSE Plan("DeletingCleanup", "update", o, EmptyResult, NilErr)

AfterCleanup(o, cerr) ==
  IF cerr # NilErr
  THEN Plan("DeletingCleanup", "done", o, EmptyResult, cerr)
  ELSE Plan("DeletingCleanup", "update",
            RemoveFinalizer(o, myFinalizerName), EmptyResult, NilErr)

(* reconcileDelete that logs the error of r.Update and goes on *)
AfterUpdate_RemovalFailureIgnored(b, o, uerr) ==
  IF uerr # NilErr /\ b # "DeletingCleanup"
  THEN Plan(b, "done", o, EmptyResult, uerr)
  ELSE IF b = "AttachFinalizer"
  THEN Plan(b, "done", o, RequeueNow, NilErr)
  ELSE Plan(b, "event", o, EmptyResult, NilErr)

(* Reconcile that sets Requeue: true next to the error of r.Update *)
AfterUpdate_RequeueWithError(b, o, uerr) ==
  IF uerr # NilErr
  THEN Plan(b, "done", o, RequeueNow, uerr)
  ELSE IF b = "AttachFinalizer"
  THEN Plan(b, "done", o, RequeueNow, NilErr)
  ELSE Plan(b, "event", o, EmptyResult, NilErr)

(* Reconcile that returns ctrl.Result{} after attaching the finalizer *)
AfterUpdate_NoRequeue(b, o, uerr) ==
  IF uerr # NilErr
  THEN Plan(b, "done", o, EmptyResult, uerr)
  ELSE IF b = "AttachFinalizer"
  THEN Plan(b, "done", o, EmptyResult, NilErr)
  ELSE Plan(b, "event", o, EmptyResult, NilErr)

(* Reconcile that retries r.Update on a conflict with the object it holds *)
AfterUpdate_RetryOnConflict(b, o, uerr) ==
  IF uerr = ErrConflict
  THEN Plan(b, "update", o, EmptyResult, NilErr)
  ELSE IF uerr # NilErr
  THEN Plan(b, "done", o, EmptyResult, uerr)
  ELSE IF b = "AttachFinalizer"
  THEN Plan(b, "done", o, RequeueNow, NilErr)
  ELSE Plan(b, "event", o, EmptyResult, NilErr)

AfterUpdate(b, o, uerr) ==
  IF uerr # NilErr
  THEN Plan(b, "done", o, EmptyResult, uerr)
  ELSE IF b = "AttachFinalizer"
  THEN Plan(b, "done", o, RequeueNow, NilErr)
  ELSE Plan(b, "event", o, EmptyResult, NilErr)

(* reconcileNormal that discards the error: _ = r.updateStatus(...) *)
MyAfterStatusUpdate_DiscardError(b, o, serr) ==
  Plan(b, "event", o, EmptyResult, NilErr)

MyAfterStatusUpdate(b, o, serr) ==
  IF serr # NilErr
  THEN Plan(b, "done", o, EmptyResult, WrapStatusErr(serr))
  ELSE Plan(b, "event", o, EmptyResult, NilErr)

EventReason(b, r) ==
  IF b = "DeletingCleanup" THEN "Deleted"
  ELSE IF r THEN "Ready" ELSE "NotReady"

(* reconcileNormal that requeues the ready resource after 30 seconds *)
AfterEvent_ShortRequeue(b, o, r) ==
  IF b = "DeletingCleanup"
  THEN Plan(b, "done", o, EmptyResult, NilErr)
  ELSE Plan(b, "done", o, RequeueAfter(NotReadyRequeueSeconds), NilErr)

AfterEvent(b, o, r) ==
  IF b = "DeletingCleanup"
  THEN Plan(b, "done", o, EmptyResult, NilErr)
  ELSE IF r
  THEN Plan(b, "done", o, RequeueAfter(ReadyRequeueSeconds), NilErr)
  ELSE Plan(b, "done", o, RequeueAfter(NotReadyRequeueSeconds), NilErr)

(* GuestbookReconciler *)

AvailableIsCurrent(o) ==
  /\ FindStatusCondition(o.conditions, TypeAvailable) # <<>>
  /\ FindStatusCondition(o.conditions, TypeAvailable)[1].observedGeneration
       = o.generation
  /\ FindStatusCondition(o.conditions, TypeAvailable)[1].status = "True"

(* Reconcile that goes on with the zero object after a failed Get *)
GuestbookReconcile_IgnoreGetError(got) ==
  IF got.err # NilErr /\ IsNotFound(got.err)
  THEN Plan("NotFound", "done", got.obj, EmptyResult, NilErr)
  ELSE IF ~AvailableIsCurrent(got.obj)
  THEN Plan("Reconciling", "status",
            [got.obj EXCEPT !.conditions =
               SetStatusCondition(@, Condition(TypeAvailable, "True",
                                               "Reconciled",
                                               got.obj.generation))],
            EmptyResult, NilErr)
  ELSE Plan("Reconciling", "done", got.obj, EmptyResult, NilErr)

(* Reconcile that sets status.conditions to the Available condition alone *)
GuestbookReconcile_ReplacesConditions(got) ==
  IF got.err # NilErr
  THEN Plan(IF IsNotFound(got.err) THEN "NotFound" ELSE "GetError", "done",
            got.obj, EmptyResult, IgnoreNotFound(got.err))
  ELSE IF ~AvailableIsCurrent(got.obj)
  THEN Plan("Reconciling", "status",
            [got.obj EXCEPT !.conditions =
               << Condition(TypeAvailable, "True", "Reconciled",
                            got.obj.generation) >>],
            EmptyResult, NilErr)
  ELSE Plan("Reconciling", "done", got.obj, EmptyResult, NilErr)

(* Reconcile that writes the Available condition without looking for it *)
GuestbookReconcile_AlwaysWrites(got) ==
  IF got.err # NilErr
  THEN Plan(IF IsNotFound(got.err) THEN "NotFound" ELSE "GetError", "done",
            got.obj, EmptyResult, IgnoreNotFound(got.err))
  ELSE Plan("Reconciling", "status",
            [got.obj EXCEPT !.conditions =
               SetStatusCondition(@, Condition(TypeAvailable, "True",
                                               "Reconciled",
                                               got.obj.generation))],
            EmptyResult, NilErr)

(* Reconcile whose Available condition carries no ObservedGeneration *)
GuestbookReconcile_NoObservedGeneration(got) ==
  IF got.err # NilErr
  THEN Plan(IF IsNotFound(got.err) THEN "NotFound" ELSE "GetError", "done",
            got.obj, EmptyResult, IgnoreNotFound(got.err))
  ELSE IF ~AvailableIsCurrent(got.obj)
  THEN Plan("Reconciling", "status",
            [got.obj EXCEPT !.conditions =
               SetStatusCondition(@, Condition(TypeAvailable, "True",
                                               "Reconciled", 0))],
            EmptyResult, NilErr)
  ELSE Plan("Reconciling", "done", got.obj, EmptyResult, NilErr)

GuestbookReconcile(got) ==
  IF got.err # NilErr
  THEN Plan(IF IsNotFound(got.err) THEN "NotFound" ELSE "GetError", "done",
            got.obj, EmptyResult, IgnoreNotFound(got.err))
  ELSE IF ~AvailableIsCurrent(got.obj)
  THEN Plan("Reconciling", "status",
            [got.obj EXCEPT !.conditions =
               SetStatusCondition(@, Condition(TypeAvailable, "True",
                                               "Reconciled",
                                               got.obj.generation))],
            EmptyResult, NilErr)
  ELSE Plan("Reconciling", "done", got.obj, EmptyResult, NilErr)

(* Reconcile that repeats Status().Update until it is not a conflict *)
GuestbookAfterStatusUpdate_RetryOnConflict(b, o, serr) ==
  IF serr = ErrConflict
  THEN Plan(b, "status", o, EmptyResult, NilErr)
  ELSE Plan(b, "done", o, EmptyResult, serr)

GuestbookAfterStatusUpdate(b, o, serr) ==
  Plan(b, "done", o, EmptyResult, serr)

----------------------------------------------------------------------------
(* State machine *)

Call(call, what, err) == [call |-> call, what |-> what, err |-> err]

(* scaffold_operator.sh before it is started *)
NotRun ==
  [pc |-> "off", name |-> "", repo |-> "", kind |-> "", domain |-> "",
   group |-> "", version |-> "", webhook |-> FALSE, read |-> 0,
   given |-> {}, unknown |-> FALSE, status |-> 0, ran |-> <<>>,
   success |-> FALSE, failed |-> FALSE]

Init ==
  /\ kind \in Kinds
  /\ store = NoObject
  /\ rev = 0
  /\ creates = 0
  /\ failures = 0
  /\ queued = FALSE
  /\ pc = [w \in Workers |-> "idle"]
  /\ obj = [w \in Workers |-> NoObject]
  /\ fetched = [w \in Workers |-> NoObject]
  /\ branch = [w \in Workers |-> "None"]
  /\ ret = [w \in Workers |-> [result |-> EmptyResult, err |-> NilErr]]
  /\ trace = [w \in Workers |-> <<>>]
  /\ events = {}
  /\ prev = [returned |-> FALSE, result |-> EmptyResult, err |-> NilErr,
             stored |-> NoObject]
  /\ ready = [w \in Workers |-> isReady]
  /\ sh = NotRun

(* The worker moves to the next blocking call of its plan, or returns;     *)
(* stored is the resource as this step leaves it in the store.             *)
Proceed(w, plan, stored) ==
  /\ pc' = [pc EXCEPT ![w] = plan.next]
  /\ obj' = [obj EXCEPT ![w] = plan.obj]
  /\ branch' = [branch EXCEPT ![w] = plan.branch]
  /\ ret' = IF plan.next = "done"
            THEN [ret EXCEPT ![w] = [result |-> plan.result, err |-> plan.err]]
            ELSE ret
  /\ prev' = IF plan.next = "done"
             THEN [returned |-> TRUE, result |-> plan.result,
                   err |-> plan.err, stored |-> stored]
             ELSE prev

(* The store takes the outcome of a write and notifies the watch. *)
Commit(stored) ==
  /\ store' = stored
  /\ rev' = IF stored # store THEN rev + 1 ELSE rev
  /\ queued' = (queued \/ Enqueues(store, stored))

(* An invocation starts with r.Get and runs the local code up to its next   *)
(* blocking call; outcomes are the values the readiness check of           *)
(* reconcileNormal can find (only reconcileNormal runs the check).         *)
Fetch(w, outcomes) ==
  \E fail \in BOOLEAN, r \in outcomes :
     /\ r # isReady =>
          /\ kind = "MyResource"
          /\ MyReconcile(ClientGet(fail), r).branch = "Reconciling"
     /\ trace' = [trace EXCEPT ![w] = <<Call("Get", "", ClientGet(fail).err)>>]
     /\ fetched' = [fetched EXCEPT ![w] = ClientGet(fail).obj]
     /\ ready' = [ready EXCEPT ![w] = r]
     /\ Proceed(w, IF kind = "MyResource"
                   THEN MyReconcile(ClientGet(fail), r)
                   ELSE GuestbookReconcile(ClientGet(fail)),
                store)

(* The dispatcher hands the key to a worker only when no invocation for it *)
(* is in flight.  The readiness check is the scaffold's: isReady := true.  *)
Get(w) ==
  /\ queued
  /\ \A v \in Workers : pc[v] = "idle"
  /\ queued' = FALSE
  /\ Fetch(w, {isReady})
  /\ UNCHANGED <<kind, store, rev, creates, failures, events, sh>>

Cleanup(w) ==
  /\ pc[w] = "cleanup"
  /\ \E cerr \in {NilErr, ErrCleanup} :
       /\ cerr # NilErr => failures < MaxCleanupFailures
       /\ failures' = IF cerr # NilErr THEN failures + 1 ELSE failures
       /\ trace' = [trace EXCEPT ![w] = Append(@, Call("Cleanup", "", cerr))]
       /\ Proceed(w, AfterCleanup(obj[w], cerr), store)
  /\ UNCHANGED <<kind, store, rev, creates, queued, fetched, events, ready, sh>>

Update(w) ==
  /\ pc[w] = "update"
  /\ \E fail \in BOOLEAN :
       /\ trace' = [trace EXCEPT ![w] =
                      Append(@, Call("Update", "", ClientUpdate(obj[w], fail).err))]
       /\ Commit(ClientUpdate(obj[w], fail).stored)
       /\ Proceed(w, AfterUpdate(branch[w], obj[w],
                                 ClientUpdate(obj[w], fail).err),
                  ClientUpdate(obj[w], fail).stored)
  /\ UNCHANGED <<kind, creates, failures, fetched, events, ready, sh>>

StatusUpdate(w) ==
  /\ pc[w] = "status"
  /\ \E fail \in BOOLEAN :
       /\ trace' = [trace EXCEPT ![w] =
                      Append(@, Call("StatusUpdate", "",
                                     ClientStatusUpdate(obj[w], fail).err))]
       /\ Commit(ClientStatusUpdate(obj[w], fail).stored)
       /\ Proceed(w, IF kind = "MyResource"
                     THEN MyAfterStatusUpdate(branch[w], obj[w],
                            ClientStatusUpdate(obj[w], fail).err)
                     ELSE GuestbookAfterStatusUpdate(branch[w], obj[w],
                            ClientStatusUpdate(obj[w], fail).err),
                  ClientStatusUpdate(obj[w], fail).stored)
  /\ UNCHANGED <<kind, creates, failures, fetched, events, ready, sh>>

Event(w) ==
  /\ pc[w] = "event"
  /\ trace' = [trace EXCEPT ![w] =
                 Append(@, Call("Event", EventReason(branch[w], ready[w]),
                                NilErr))]
  /\ events' = events \cup {EventReason(branch[w], ready[w])}
  /\ Proceed(w, AfterEvent(branch[w], obj[w], ready[w]), store)
  /\ UNCHANGED <<kind, store, rev, creates, failures, queued, fetched, ready,
                 sh>>

(* The dispatcher takes the returned result and error: an error, Requeue   *)
(* or RequeueAfter puts the key back on the queue.  The invocation is over *)
(* and the worker keeps nothing of it.                                     *)
NeedsRequeue(r) ==
  r.err # NilErr \/ r.result.Requeue \/ r.result.RequeueAfter > 0

Forget(w) ==
  /\ pc' = [pc EXCEPT ![w] = "idle"]
  /\ obj' = [obj EXCEPT ![w] = NoObject]
  /\ fetched' = [fetched EXCEPT ![w] = NoObject]
  /\ branch' = [branch EXCEPT ![w] = "None"]
  /\ ret' = [ret EXCEPT ![w] = [result |-> EmptyResult, err |-> NilErr]]
  /\ trace' = [trace EXCEPT ![w] = <<>>]
  /\ ready' = [ready EXCEPT ![w] = isReady]

Ack(w) ==
  /\ pc[w] = "done"
  /\ Forget(w)
  /\ queued' = (queued \/ NeedsRequeue(ret[w]))
  /\ UNCHANGED <<kind, store, rev, creates, failures, events, prev, sh>>

(* The worker process dies between two blocking calls; the unacknowledged  *)
(* request is delivered again.                                             *)
Crash(w) ==
  /\ pc[w] \in {"cleanup", "update", "status", "event"}
  /\ Forget(w)
  /\ prev' = [prev EXCEPT !.returned = FALSE]
  /\ queued' = TRUE
  /\ UNCHANGED <<kind, store, rev, creates, failures, events, sh>>

(* The API layer *)

Create ==
  /\ ~store.exists
  /\ creates < MaxCreates
  /\ creates' = creates + 1
  /\ failures' = 0
  /\ Commit(NewObject(rev + 1))
  /\ UNCHANGED <<kind, pc, obj, fetched, branch, ret, trace, events, prev,
                 ready, sh>>

EditSpec ==
  /\ store.exists
  /\ store.generation < MaxGen
  /\ Commit([store EXCEPT !.generation = @ + 1, !.resourceVersion = rev + 1])
  /\ UNCHANGED <<kind, creates, failures, pc, obj, fetched, branch, ret,
                 trace, events, prev, ready, sh>>

Delete ==
  /\ store.exists
  /\ ~store.deleting
  /\ Commit(IF store.finalizers = {} THEN NoObject
            ELSE [store EXCEPT !.deleting = TRUE, !.resourceVersion = rev + 1])
  /\ UNCHANGED <<kind, creates, failures, pc, obj, fetched, branch, ret,
                 trace, events, prev, ready, sh>>

Next ==
  \/ \E w \in Workers : Get(w)
  \/ \E w \in Workers : Cleanup(w)
  \/ \E w \in Workers : Update(w)
  \/ \E w \in Workers : StatusUpdate(w)
  \/ \E w \in Workers : Event(w)
  \/ \E w \in Workers : Ack(w)
  \/ \E w \in Workers : Crash(w)
  \/ Create
  \/ EditSpec
  \/ Delete

Spec == Init /\ [][Next]_vars

(* The readiness check of reconcileNormal implemented (the TODO of the     *)
(* template): it finds the child resources ready or not ready.  Workers do *)
(* not crash here.                                                         *)
GetChecked(w) ==
  /\ queued
  /\ \A v \in Workers : pc[v] = "idle"
  /\ queued' = FALSE
  /\ Fetch(w, BOOLEAN)
  /\ UNCHANGED <<kind, store, rev, creates, failures, events, sh>>

NextChecked ==
  \/ \E w \in Workers : GetChecked(w)
  \/ \E w \in Workers : Cleanup(w)
  \/ \E w \in Workers : Update(w)
  \/ \E w \in Workers : StatusUpdate(w)
  \/ \E w \in Workers : Event(w)
  \/ \E w \in Workers : Ack(w)
  \/ Create
  \/ EditSpec
  \/ Delete

SpecChecked == Init /\ [][NextChecked]_vars

(* A dispatcher without per-key serialization: it hands the key to an idle *)
(* worker while another invocation for the key is in flight, and it may    *)
(* deliver one request more than once.  Workers do not crash and the spec  *)
(* of the resource is not edited here.                                     *)
GetOverlapping(w) ==
  /\ queued
  /\ pc[w] = "idle"
  /\ \E v \in Workers : \A u \in Workers \ {v} : pc[u] = "idle"
  /\ queued' \in BOOLEAN
  /\ Fetch(w, {isReady})
  /\ UNCHANGED <<kind, store, rev, creates, failures, events, sh>>

NextOverlap ==
  \/ \E w \in Workers : GetOverlapping(w)
  \/ \E w \in Workers : Cleanup(w)
  \/ \E w \in Workers : Update(w)
  \/ \E w \in Workers : StatusUpdate(w)
  \/ \E w \in Workers : Event(w)
  \/ \E w \in Workers : Ack(w)
  \/ Create
  \/ Delete

SpecOverlap == Init /\ [][NextOverlap]_vars

----------------------------------------------------------------------------
(* scaffold_operator.sh.  The arguments are read from the left, one option *)
(* (with its value) per turn of the while loop, so the argument list is an *)
(* input of each turn.  ran lists the commands that change the file system *)
(* or call kubebuilder or make.                                            *)

ctl == <<kind, store, rev, creates, failures, queued, pc, obj, fetched,
         branch, ret, trace, events, prev, ready>>

ValueOptions == {"-n", "-d", "-r", "-g", "-k", "-v"}

Options == ValueOptions \cup {"--webhook", "-h", "unknown"}

Field(opt) ==
  CASE opt = "-n" -> "name"
    [] opt = "-d" -> "domain"
    [] opt = "-r" -> "repo"
    [] opt = "-g" -> "group"
    [] opt = "-k" -> "kind"
    [] opt = "-v" -> "version"

Exit(s, status) == [s EXCEPT !.pc = "exit", !.status = status]

(* the script without set -e: the next command runs whatever the status *)
Run_IgnoreFailure(s, cmd, ok, next) ==
  [s EXCEPT !.pc = next, !.ran = Append(@, cmd)]

(* set -e: a command that fails ends the script with its status *)
Run(s, cmd, ok, next) ==
  IF ok THEN [s EXCEPT !.pc = next, !.ran = Append(@, cmd)]
  ELSE Exit([s EXCEPT !.ran = Append(@, cmd)], 1)

(* A scaffold step: the command runs and failed records how it ended. *)
Step(s, cmd, ok, next) == [Run(s, cmd, ok, next) EXCEPT !.failed = ~ok]

(* NAME, REPO and KIND are not initialised: they hold what the environment *)
(* of the process exports under these names.                               *)
ShStart ==
  /\ sh.pc = "off"
  /\ \E n, r, k \in {"", "env"} :
       sh' = [sh EXCEPT !.pc = "parse", !.name = n, !.repo = r, !.kind = k,
                        !.domain = "example.com", !.group = "apps",
                        !.version = "v1", !.webhook = FALSE]
  /\ UNCHANGED ctl

(* One turn of the while loop: $1 is opt, $2 is val unless $1 is the last  *)
(* argument (last), in which case "$2" is empty and shift 2 fails.         *)
ShOption ==
  /\ sh.pc = "parse"
  /\ sh.read < MaxOptions
  /\ \E opt \in Options, val \in {"", "x"}, last \in BOOLEAN :
       /\ last => val = ""
       /\ opt \notin ValueOptions => (val = "" /\ ~last)
       /\ sh' =
            IF opt \in ValueOptions
            THEN IF last
                 THEN Exit([sh EXCEPT ![Field(opt)] = "",
                                      !.read = @ + 1,
                                      !.given = @ \cup {opt}], 1)
                 ELSE [sh EXCEPT ![Field(opt)] = val,
                                 !.read = @ + 1,
                                 !.given = @ \cup {opt}]
            ELSE IF opt = "--webhook"
            THEN [sh EXCEPT !.webhook = TRUE, !.read = @ + 1,
                            !.given = @ \cup {opt}]
            ELSE IF opt = "-h"
            THEN Exit([sh EXCEPT !.read = @ + 1, !.given = @ \cup {opt}], 0)
            ELSE Exit([sh EXCEPT !.read = @ + 1, !.unknown = TRUE], 1)
  /\ UNCHANGED ctl

(* $# is 0: the loop ends and the required arguments are validated *)
ShValidate ==
  /\ sh.pc = "parse"
  /\ sh' = IF sh.name = "" \/ sh.repo = "" \/ sh.kind = ""
           THEN Exit(sh, 1)
           ELSE [sh EXCEPT !.pc = "check"]
  /\ UNCHANGED ctl

ShCheckKubebuilder ==
  /\ sh.pc = "check"
  /\ \E installed \in BOOLEAN :
       sh' = IF installed THEN [sh EXCEPT !.pc = "mkdir"] ELSE Exit(sh, 1)
  /\ UNCHANGED ctl

ShMkdir ==
  /\ sh.pc = "mkdir"
  /\ \E ok \in BOOLEAN : sh' = Step(sh, "mkdir", ok, "init")
  /\ UNCHANGED ctl

ShInit ==
  /\ sh.pc = "init"
  /\ \E ok \in BOOLEAN : sh' = Step(sh, "kubebuilder init", ok, "api")
  /\ UNCHANGED ctl

ShCreateApi ==
  /\ sh.pc = "api"
  /\ \E ok \in BOOLEAN :
       sh' = Step(sh, "kubebuilder create api", ok,
                  IF sh.webhook THEN "webhook" ELSE "make")
  /\ UNCHANGED ctl

ShCreateWebhook ==
  /\ sh.pc = "webhook"
  /\ \E ok \in BOOLEAN :
       sh' = Step(sh, "kubebuilder create webhook", ok, "make")
  /\ UNCHANGED ctl

(* make manifests generate, then the success message and exit status 0 *)
ShMake ==
  /\ sh.pc = "make"
  /\ \E ok \in BOOLEAN :
       sh' = LET s == Step(sh, "make manifests generate", ok, "exit")
             IN  [s EXCEPT !.success = (s.status = 0)]
  /\ UNCHANGED ctl

NextScaffold ==
  \/ ShStart
  \/ ShOption
  \/ ShValidate
  \/ ShCheckKubebuilder
  \/ ShMkdir
  \/ ShInit
  \/ ShCreateApi
  \/ ShCreateWebhook
  \/ ShMake

SpecScaffold == Init /\ [][NextScaffold]_vars

(* A fair dispatcher and a store whose failures do not last: a returned    *)
(* result is taken, a waiting request is handed out, a worker goes on to   *)
(* its next call, and a store call that can succeed again and again        *)
(* succeeds in the end.  The spec is edited at most MaxGen - 1 times,      *)
(* nobody deletes the resource and workers do not crash.                   *)
Succeeds(w) == trace'[w][Len(trace'[w])].err = NilErr

NextConverge ==
  \/ \E w \in Workers : Get(w)
  \/ \E w \in Workers : Update(w)
  \/ \E w \in Workers : StatusUpdate(w)
  \/ \E w \in Workers : Event(w)
  \/ \E w \in Workers : Ack(w)
  \/ Create
  \/ EditSpec

FairConverge ==
  \A w \in Workers :
    /\ WF_vars(Ack(w))
    /\ WF_vars(Event(w))
    /\ WF_vars(Get(w))
    /\ WF_vars(Update(w))
    /\ WF_vars(StatusUpdate(w))
    /\ SF_vars(Get(w) /\ Succeeds(w))
    /\ SF_vars(Update(w) /\ Succeeds(w))
    /\ SF_vars(StatusUpdate(w) /\ Succeeds(w))

SpecConverge == Init /\ [][NextConverge]_vars /\ FairConverge

(* The same fair dispatcher and store with deletion: the resource is       *)
(* deleted, cleanup fails at most MaxCleanupFailures times (so weak        *)
(* fairness is enough for it), the spec is not edited and workers do not   *)
(* crash.                                                                  *)
NextTerminate ==
  \/ \E w \in Workers : Get(w)
  \/ \E w \in Workers : Cleanup(w)
  \/ \E w \in Workers : Update(w)
  \/ \E w \in Workers : StatusUpdate(w)
  \/ \E w \in Workers : Event(w)
  \/ \E w \in Workers : Ack(w)
  \/ Create
  \/ Delete

FairTerminate ==
  /\ FairConverge
  /\ \A w \in Workers : WF_vars(Cleanup(w))

SpecTerminate == Init /\ [][NextTerminate]_vars /\ FairTerminate

(* A second controller holds every resource with a finalizer of its own:   *)
(* the resource outlives the removal of myFinalizerName until that         *)
(* finalizer is released too.  Workers do not crash here.                  *)
foreignFinalizer == "other.example.com/finalizer"

CreateHeld ==
  /\ ~store.exists
  /\ creates < MaxCreates
  /\ creates' = creates + 1
  /\ failures' = 0
  /\ Commit(AddFinalizer(NewObject(rev + 1), foreignFinalizer))
  /\ UNCHANGED <<kind, pc, obj, fetched, branch, ret, trace, events, prev,
                 ready, sh>>

ReleaseForeign ==
  /\ store.exists
  /\ store.deleting
  /\ ContainsFinalizer(store, foreignFinalizer)
  /\ Commit(Persist(RemoveFinalizer(store, foreignFinalizer)))
  /\ UNCHANGED <<kind, creates, failures, pc, obj, fetched, branch, ret,
                 trace, events, prev, ready, sh>>

NextHeld ==
  \/ \E w \in Workers : Get(w)
  \/ \E w \in Workers : Cleanup(w)
  \/ \E w \in Workers : Update(w)
  \/ \E w \in Workers : StatusUpdate(w)
  \/ \E w \in Workers : Event(w)
  \/ \E w \in Workers : Ack(w)
  \/ CreateHeld
  \/ EditSpec
  \/ Delete
  \/ ReleaseForeign

SpecHeld == Init /\ [][NextHeld]_vars

(* The held resource also carries a condition of a type that neither      *)
(* reconciler writes: the controller that holds it records it in the       *)
(* status, once per resource.                                              *)
TypeProgressing == "Progressing"

ForeignCondition ==
  /\ store.exists
  /\ FindStatusCondition(store.conditions, TypeProgressing) = <<>>
  /\ Commit([store EXCEPT
               !.conditions =
                 SetStatusCondition(@, Condition(TypeProgressing, "True",
                                                 "Rollout", store.generation)),
               !.resourceVersion = rev + 1])
  /\ UNCHANGED <<kind, creates, failures, pc, obj, fetched, branch, ret,
                 trace, events, prev, ready, sh>>

NextShared ==
  \/ \E w \in Workers : Get(w)
  \/ \E w \in Workers : Cleanup(w)
  \/ \E w \in Workers : Update(w)
  \/ \E w \in Workers : StatusUpdate(w)
  \/ \E w \in Workers : Event(w)
  \/ \E w \in Workers : Ack(w)
  \/ CreateHeld
  \/ EditSpec
  \/ Delete
  \/ ForeignCondition

SpecShared == Init /\ [][NextShared]_vars

TypeOK ==
  /\ kind \in Kinds
  /\ store.exists \in BOOLEAN
  /\ rev \in Nat
  /\ creates \in 0..MaxCreates
  /\ failures \in 0..MaxCleanupFailures
  /\ queued \in BOOLEAN
  /\ \A w \in Workers :
       /\ pc[w] \in {"idle", "cleanup", "update", "status", "event", "done"}
       /\ ready[w] \in BOOLEAN
  /\ sh.pc \in {"off", "parse", "check", "mkdir", "init", "api", "webhook",
                "make", "exit"}
  /\ sh.read \in 0..MaxOptions

----------------------------------------------------------------------------
(* Vocabulary of the properties *)

My == kind = "MyResource"

HasFinalizer(o) == o.exists /\ ContainsFinalizer(o, myFinalizerName)

IsStatusConditionTrue(conds, type) ==
  /\ FindStatusCondition(conds, type) # <<>>
  /\ FindStatusCondition(conds, type)[1].status = "True"

(* Worker w makes the blocking call in this step, with this outcome. *)
Made(w, call, err) == trace'[w] = Append(trace[w], Call(call, "", err))

Recorded(w, reason) == trace'[w] = Append(trace[w], Call("Event", reason, NilErr))

(* Worker w returns from Reconcile in this step. *)
Returns(w) == pc[w] # "done" /\ pc'[w] = "done"

HasCall(t, call, err) ==
  \E i \in 1..Len(t) : t[i].call = call /\ t[i].err = err

Issued(t, call) == \E i \in 1..Len(t) : t[i].call = call

Success(result) == [result |-> result, err |-> NilErr]

Failure(err) == [result |-> EmptyResult, err |-> err]

----------------------------------------------------------------------------
(* C1: No premature finalizer removal.  In reconcileDelete, every          *)
(* invocation in which cleanup fails ends there and leaves the finalizer   *)
(* in the stored resource, however often that happens; the step that takes *)
(* the finalizer out of the stored resource is the Update of an invocation *)
(* whose own cleanup call succeeded.                                       *)
NoPrematureFinalizerRemoval ==
  [][My =>
       /\ \A w \in Workers :
            Made(w, "Cleanup", ErrCleanup) =>
              /\ pc'[w] = "done"
              /\ HasFinalizer(store')
       /\ (HasFinalizer(store) /\ ~HasFinalizer(store')) =>
            \E w \in Workers :
              /\ trace[w] = <<Call("Get", "", NilErr), Call("Cleanup", "", NilErr)>>
              /\ Made(w, "Update", NilErr)]_vars

(* Cleanup failed twice, then succeeded, and the finalizer went with the   *)
(* resource.                                                               *)
RemovedAfterFailures ==
  /\ My
  /\ failures >= 2
  /\ ~store.exists
  /\ \E w \in Workers :
       /\ pc[w] = "done"
       /\ HasCall(trace[w], "Cleanup", NilErr)
       /\ HasCall(trace[w], "Update", NilErr)

----------------------------------------------------------------------------
(* C2: Finalizer before side effect.  Every step of normal reconciliation  *)
(* that has an effect (a status write the store accepts, a Ready or        *)
(* NotReady event) starts in a state whose stored resource carries the     *)
(* finalizer; and wherever the worker stops or crashes, a stored resource  *)
(* that carries status carries the finalizer.                              *)
StatusImpliesFinalizer(o) ==
  (o.exists /\ (o.conditions # <<>> \/ o.observedGeneration # 0)) =>
    HasFinalizer(o)

FinalizerBeforeSideEffect ==
  [][My =>
       /\ \A w \in Workers :
            (\/ Made(w, "StatusUpdate", NilErr)
             \/ Recorded(w, "Ready")
             \/ Recorded(w, "NotReady")) =>
              (HasFinalizer(store) /\ HasFinalizer(store'))
       /\ StatusImpliesFinalizer(store)
       /\ StatusImpliesFinalizer(store')]_vars

(* The worker crashed between the status write and the event: the status   *)
(* is stored, no event was ever recorded, the finalizer is there.          *)
CrashedAfterStatusWrite ==
  /\ My
  /\ \A w \in Workers : pc[w] = "idle"
  /\ HasFinalizer(store)
  /\ IsStatusConditionTrue(store.conditions, TypeReady)
  /\ events = {}

----------------------------------------------------------------------------
(* C3: Finalizer-attach branch.  A fetched resource that is not being      *)
(* deleted and lacks the finalizer sends Reconcile to r.Update with the    *)
(* finalizer added; when that Update succeeds the stored resource carries  *)
(* the finalizer, its status is as before, no event is recorded, and       *)
(* Reconcile returns Requeue: true with a nil error, having called nothing *)
(* but Get and Update.                                                     *)
AttachFinalizerBranch ==
  [][My =>
       \A w \in Workers :
         /\ (/\ Made(w, "Get", NilErr)
             /\ ~store.deleting
             /\ ~HasFinalizer(store)) =>
              /\ pc'[w] = "update"
              /\ obj'[w] = AddFinalizer(store, myFinalizerName)
         /\ (/\ fetched[w].exists
             /\ ~fetched[w].deleting
             /\ ~HasFinalizer(fetched[w])
             /\ Made(w, "Update", NilErr)) =>
              /\ HasFinalizer(store')
              /\ store'.conditions = store.conditions
              /\ store'.observedGeneration = store.observedGeneration
              /\ events' = events
              /\ pc'[w] = "done"
              /\ ret'[w] = Success(RequeueNow)
              /\ trace'[w] = <<Call("Get", "", NilErr),
                               Call("Update", "", NilErr)>>]_vars

FinalizerAttached ==
  /\ My
  /\ \E w \in Workers :
       /\ pc[w] = "done"
       /\ ~HasFinalizer(fetched[w])
       /\ fetched[w].exists
       /\ HasCall(trace[w], "Update", NilErr)
       /\ ret[w] = Success(RequeueNow)
       /\ HasFinalizer(store)

----------------------------------------------------------------------------
(* C4 as stated: a resource is created, Reconcile is called, and after it  *)
(* returns status.conditions holds Ready=True and the result asks for a    *)
(* requeue after 5 minutes.                                                *)
CreatedThenReconciledIsReady ==
  [][My =>
       \A w \in Workers :
         (/\ Returns(w)
          /\ fetched'[w] = NewObject(fetched'[w].resourceVersion)
          /\ ret'[w].err = NilErr) =>
           /\ ret'[w].result = RequeueAfter(ReadyRequeueSeconds)
           /\ IsStatusConditionTrue(store'.conditions, TypeReady)]_vars

(* C4 as amended: on a created resource the first Reconcile only attaches  *)
(* the finalizer and returns Requeue: true, the stored status still empty; *)
(* the Reconcile that finds the finalizer (the second one) leaves          *)
(* Ready=True in status.conditions and returns a requeue-after of 5        *)
(* minutes.                                                                *)
CreatedThenReconciledTwiceIsReady ==
  [][My =>
       \A w \in Workers :
         (/\ Returns(w)
          /\ fetched'[w].exists
          /\ ~fetched'[w].deleting
          /\ ret'[w].err = NilErr) =>
           IF HasFinalizer(fetched'[w])
           THEN /\ ret'[w].result = RequeueAfter(ReadyRequeueSeconds)
                /\ store'.exists
                /\ IsStatusConditionTrue(store'.conditions, TypeReady)
           ELSE /\ ret'[w].result = RequeueNow
                /\ (fetched'[w].conditions = <<>> =>
                      ~IsStatusConditionTrue(store'.conditions, TypeReady))]_vars

SecondReconcileReady ==
  /\ My
  /\ \E w \in Workers :
       /\ pc[w] = "done"
       /\ fetched[w] = AddFinalizer(NewObject(fetched[w].resourceVersion),
                                    myFinalizerName)
       /\ ret[w] = Success(RequeueAfter(ReadyRequeueSeconds))
       /\ IsStatusConditionTrue(store.conditions, TypeReady)

----------------------------------------------------------------------------
(* C5: Cleanup failure.  When the cleanup call of reconcileDelete fails,   *)
(* Reconcile returns that error with an empty result in the same step, the *)
(* stored resource is exactly as before, still carrying the finalizer and  *)
(* its deletion timestamp (so it is not physically deleted), and the       *)
(* invocation has issued no Update.                                        *)
CleanupFailureKeepsResource ==
  [][My =>
       \A w \in Workers :
         Made(w, "Cleanup", ErrCleanup) =>
           /\ pc'[w] = "done"
           /\ ret'[w] = Failure(ErrCleanup)
           /\ store' = store
           /\ HasFinalizer(store')
           /\ store'.deleting
           /\ ~Issued(trace'[w], "Update")
           /\ ~Issued(trace'[w], "StatusUpdate")]_vars

CleanupFailed ==
  /\ My
  /\ \E w \in Workers :
       /\ pc[w] = "done"
       /\ trace[w] = <<Call("Get", "", NilErr), Call("Cleanup", "", ErrCleanup)>>
       /\ ret[w] = Failure(ErrCleanup)
       /\ HasFinalizer(store)
       /\ store.deleting

----------------------------------------------------------------------------
(* C6: Cleanup success.  When cleanup succeeds, reconcileDelete takes the  *)
(* finalizer off its copy and calls r.Update; when that Update succeeds    *)
(* the stored resource no longer carries the finalizer, and the invocation *)
(* returns an empty result and a nil error without a status write.         *)
CleanupSuccessRemovesFinalizer ==
  [][My =>
       \A w \in Workers :
         /\ Made(w, "Cleanup", NilErr) =>
              /\ pc'[w] = "update"
              /\ ~ContainsFinalizer(obj'[w], myFinalizerName)
         /\ (HasCall(trace[w], "Cleanup", NilErr) /\ Made(w, "Update", NilErr)) =>
              /\ HasFinalizer(store)
              /\ ~HasFinalizer(store')
         /\ (/\ Returns(w)
             /\ HasCall(trace'[w], "Cleanup", NilErr)
             /\ HasCall(trace'[w], "Update", NilErr)) =>
              /\ ret'[w] = Success(EmptyResult)
              /\ ~Issued(trace'[w], "StatusUpdate")]_vars

CleanupSucceeded ==
  /\ My
  /\ ~store.exists
  /\ \E w \in Workers :
       /\ pc[w] = "done"
       /\ trace[w] = <<Call("Get", "", NilErr), Call("Cleanup", "", NilErr),
                       Call("Update", "", NilErr),
                       Call("Event", "Deleted", NilErr)>>
       /\ ret[w] = Success(EmptyResult)

----------------------------------------------------------------------------
(* C7 as stated: whenever normal reconciliation returns success, the       *)
(* stored status.observedGeneration equals the stored generation at that   *)
(* moment.                                                                 *)
ObservedGenerationCurrentAtReturn ==
  [][My =>
       \A w \in Workers :
         (/\ Returns(w)
          /\ HasCall(trace'[w], "StatusUpdate", NilErr)
          /\ ret'[w].err = NilErr) =>
           store'.observedGeneration = store'.generation]_vars

(* C7 as amended: whenever the status write of normal reconciliation       *)
(* succeeds, the stored generation is the fetched one (a spec edit between *)
(* fetch and write makes the write fail) and the write leaves the stored   *)
(* status.observedGeneration equal to the stored generation; when the      *)
(* invocation then returns success, the stored observedGeneration is still *)
(* the generation it fetched, which a spec edit made after the write may   *)
(* already have passed.                                                    *)
ObservedGenerationCurrentAtWrite ==
  [][My =>
       \A w \in Workers :
         /\ Made(w, "StatusUpdate", NilErr) =>
              /\ store.generation = fetched[w].generation
              /\ store'.observedGeneration = store'.generation
         /\ (/\ Returns(w)
             /\ HasCall(trace'[w], "StatusUpdate", NilErr)
             /\ ret'[w].err = NilErr) =>
              /\ store'.observedGeneration = fetched[w].generation
              /\ store'.observedGeneration <= store'.generation]_vars

(* A status write of a resource whose spec was edited before the fetch. *)
StatusWrittenAtLaterGeneration ==
  /\ My
  /\ \E w \in Workers :
       /\ pc[w] = "event"
       /\ HasCall(trace[w], "StatusUpdate", NilErr)
       /\ fetched[w].observedGeneration < fetched[w].generation
       /\ fetched[w].generation > 1
       /\ store.observedGeneration = store.generation

----------------------------------------------------------------------------
(* C8: Idempotence.  A Reconcile that starts from the stored state the     *)
(* previous Reconcile returned on (that one returned a nil error and did   *)
(* not ask for an immediate requeue) makes no call but its Get (no store   *)
(* write, no cleanup, no event) and computes no other status than the      *)
(* stored one.                                                             *)
SecondCall(w) ==
  /\ prev.returned
  /\ prev.err = NilErr
  /\ ~prev.result.Requeue
  /\ trace'[w][1].err \in {NilErr, ErrNotFound}
  /\ fetched'[w] = prev.stored

ReconcileIsIdempotent ==
  [][\A w \in Workers :
       (Returns(w) /\ SecondCall(w)) =>
         /\ Len(trace'[w]) = 1
         /\ obj'[w].conditions = prev.stored.conditions
         /\ obj'[w].observedGeneration = prev.stored.observedGeneration]_vars

----------------------------------------------------------------------------
(* C9: NotFound is terminal success.  In both controllers an invocation    *)
(* whose Get reports not-found is over with that call (no store write, no  *)
(* cleanup, no event) and returns an empty result and a nil error.         *)
NotFoundIsSuccess ==
  \A w \in Workers :
    (trace[w] # <<>> /\ trace[w][1] = Call("Get", "", ErrNotFound)) =>
      /\ pc[w] = "done"
      /\ Len(trace[w]) = 1
      /\ ret[w] = Success(EmptyResult)

NotFoundReturned ==
  /\ ~store.exists
  /\ creates > 0
  /\ \E w \in Workers :
       /\ pc[w] = "done"
       /\ trace[w] = <<Call("Get", "", ErrNotFound)>>
       /\ ret[w] = Success(EmptyResult)

----------------------------------------------------------------------------
(* C10: Any other fetch failure is surfaced.  In both controllers an       *)
(* invocation whose Get fails with an error other than not-found is over   *)
(* with that call (no store write, no cleanup, no event) and returns an    *)
(* empty result and that error.                                            *)
GetErrorIsReturned ==
  \A w \in Workers :
    (/\ trace[w] # <<>>
     /\ trace[w][1].call = "Get"
     /\ trace[w][1].err \notin {NilErr, ErrNotFound}) =>
      /\ pc[w] = "done"
      /\ Len(trace[w]) = 1
      /\ ret[w] = Failure(trace[w][1].err)

GetErrorReturned ==
  /\ store.exists
  /\ \E w \in Workers :
       /\ pc[w] = "done"
       /\ trace[w] = <<Call("Get", "", ErrServer)>>
       /\ ret[w] = Failure(ErrServer)

----------------------------------------------------------------------------
(* C11: Deleting without the finalizer is a no-op.  When r.Get of          *)
(* MyResourceReconciler returns a resource that has a deletion timestamp   *)
(* and lacks myFinalizerName, the invocation is over with that call: it    *)
(* returns an empty result and a nil error, and it runs no cleanup, no     *)
(* Update, no Status().Update and records no event, so the stored resource *)
(* is as it was.                                                           *)
DeletingWithoutFinalizerIsNoOp ==
  [][My =>
       \A w \in Workers :
         (/\ Made(w, "Get", NilErr)
          /\ store.deleting
          /\ ~HasFinalizer(store)) =>
           /\ pc'[w] = "done"
           /\ branch'[w] = "DeletingNoFinalizer"
           /\ ret'[w] = Success(EmptyResult)
           /\ store' = store
           /\ events' = events
           /\ failures' = failures]_vars

DeletingWithoutFinalizerReturned ==
  /\ My
  /\ store.exists /\ store.deleting /\ ~HasFinalizer(store)
  /\ \E w \in Workers :
       /\ pc[w] = "done"
       /\ trace[w] = <<Call("Get", "", NilErr)>>
       /\ fetched[w] = store
       /\ ret[w] = Success(EmptyResult)

----------------------------------------------------------------------------
(* C12: Status write isolation.  A Status().Update of the reconciler that  *)
(* succeeds does not put a Reconcile Request for the key on the queue: if  *)
(* none was waiting before the write, none is waiting after it.            *)
StatusWriteDoesNotEnqueue ==
  [][\A w \in Workers :
       (Made(w, "StatusUpdate", NilErr) /\ ~queued) => ~queued']_vars

----------------------------------------------------------------------------
(* C13: Separate write paths.  The stored status changes only in a step    *)
(* that is a successful Status().Update and the stored finalizers change   *)
(* only in a step that is a successful Update; an Update is issued with    *)
(* the status as fetched and leaves the stored status alone, and a         *)
(* Status().Update is issued with generation, deletion timestamp and       *)
(* finalizers as fetched and leaves those alone: no write changes both.    *)
StatusOf(o) == <<o.conditions, o.observedGeneration>>

MetaOf(o) == <<o.generation, o.deleting, o.finalizers>>

SeparateWritePaths ==
  [][/\ (store.exists /\ store'.exists /\ StatusOf(store') # StatusOf(store)) =>
          \E w \in Workers : Made(w, "StatusUpdate", NilErr)
     /\ (store.exists /\ store'.finalizers # store.finalizers) =>
          \E w \in Workers : Made(w, "Update", NilErr)
     /\ \A w \in Workers :
          /\ (pc[w] = "update" /\ Issued(trace'[w], "Update")) =>
               /\ StatusOf(obj[w]) = StatusOf(fetched[w])
               /\ store'.exists => StatusOf(store') = StatusOf(store)
          /\ (pc[w] = "status" /\ Issued(trace'[w], "StatusUpdate")) =>
               /\ MetaOf(obj[w]) = MetaOf(fetched[w])
               /\ MetaOf(store') = MetaOf(store)]_vars

BothPathsWritten ==
  /\ My
  /\ HasFinalizer(store)
  /\ IsStatusConditionTrue(store.conditions, TypeReady)
  /\ \E w \in Workers :
       /\ pc[w] = "event"
       /\ trace[w] = <<Call("Get", "", NilErr), Call("StatusUpdate", "", NilErr)>>
       /\ StatusOf(fetched[w]) # StatusOf(store)
       /\ MetaOf(fetched[w]) = MetaOf(store)

----------------------------------------------------------------------------
(* C14: Permanent failure policy.  Whenever reconcileNormal has recorded   *)
(* the Degraded condition (its readiness check found not ready and the     *)
(* status write succeeded), Reconcile returns an empty result (no          *)
(* immediate and no delayed requeue) and a nil error.                      *)
DegradedIsNotRequeued ==
  \A w \in Workers :
    (/\ My
     /\ pc[w] = "done"
     /\ branch[w] = "Reconciling"
     /\ ~ready[w]
     /\ HasCall(trace[w], "StatusUpdate", NilErr)) =>
      ret[w] = Success(EmptyResult)

----------------------------------------------------------------------------
(* C15: Optimistic concurrency, no blind overwrite.  An Update or          *)
(* Status().Update issued with a resourceVersion that is no longer the     *)
(* stored one fails and leaves the store as it is; on a conflict the       *)
(* invocation returns that error (wrapped, for a status write) with an     *)
(* empty result, without another write and without an event; an            *)
(* invocation issues its write after a Get of its own and no write before  *)
(* it; and a write that is accepted is based on the stored resource as     *)
(* the invocation fetched it.                                              *)
Writes(w) ==
  /\ pc[w] \in {"update", "status"}
  /\ Len(trace'[w]) = Len(trace[w]) + 1

NoBlindOverwrite ==
  [][\A w \in Workers :
       Writes(w) =>
         /\ trace[w][1].call = "Get"
         /\ ~Issued(trace[w], "Update") /\ ~Issued(trace[w], "StatusUpdate")
         /\ (store.exists /\ obj[w].resourceVersion # store.resourceVersion) =>
              /\ trace'[w][Len(trace'[w])].err \in {ErrConflict, ErrServer}
              /\ store' = store
         /\ trace'[w][Len(trace'[w])].err = ErrConflict =>
              /\ pc'[w] = "done"
              /\ ret'[w] \in {Failure(ErrConflict),
                              Failure(WrapStatusErr(ErrConflict))}
              /\ store' = store
              /\ events' = events
         /\ trace'[w][Len(trace'[w])].err = NilErr =>
              fetched[w] = store]_vars

ConflictReturned ==
  \E w \in Workers :
    /\ pc[w] = "done"
    /\ trace[w][Len(trace[w])] = Call("StatusUpdate", "", ErrConflict)
    /\ ret[w] = Failure(WrapStatusErr(ErrConflict))
    /\ store.exists
    /\ store.generation > fetched[w].generation
    /\ StatusOf(store) = StatusOf(fetched[w])

----------------------------------------------------------------------------
(* C16: Concurrent NotFound is harmless.  When an invocation fetches a key *)
(* whose resource is gone while another invocation for the key is in       *)
(* flight, its Get reports not-found (or the server fails), and on         *)
(* not-found it returns at once with an empty result and a nil error,      *)
(* changing neither the store nor the events nor the cleanup count nor the *)
(* other invocation; two invocations that both saw not-found have both     *)
(* returned success after that single call.                                *)
ConcurrentNotFoundIsHarmless ==
  [][\A w \in Workers :
       (/\ pc[w] = "idle" /\ pc'[w] # "idle"
        /\ ~store.exists
        /\ \E v \in Workers \ {w} : pc[v] # "idle") =>
         /\ trace'[w][1].err \in {ErrNotFound, ErrServer}
         /\ trace'[w][1].err = ErrNotFound =>
              /\ pc'[w] = "done"
              /\ ret'[w] = Success(EmptyResult)
              /\ store' = store /\ events' = events /\ failures' = failures
              /\ \A v \in Workers \ {w} :
                   /\ pc'[v] = pc[v] /\ trace'[v] = trace[v]
                   /\ ret'[v] = ret[v] /\ obj'[v] = obj[v]
              /\ \A v \in Workers \ {w} :
                   (trace[v] = <<Call("Get", "", ErrNotFound)>>) =>
                     pc[v] = "done" /\ ret[v] = Success(EmptyResult)]_vars

BothSawNotFound ==
  /\ ~store.exists
  /\ creates > 0
  /\ \E w, v \in Workers :
       /\ w # v
       /\ pc[w] = "done" /\ pc[v] = "done"
       /\ trace[w] = <<Call("Get", "", ErrNotFound)>>
       /\ trace[v] = <<Call("Get", "", ErrNotFound)>>
       /\ ret[w] = Success(EmptyResult) /\ ret[v] = Success(EmptyResult)

----------------------------------------------------------------------------
(* C17: Condition list keyed by type.  The stored status.conditions, and   *)
(* every local copy, has at most one entry per type; a step that changes   *)
(* the stored list of an existing resource changes exactly one entry, the  *)
(* types already listed keep their positions, and a type not yet listed is *)
(* appended at the end.                                                    *)
Types(conds) == [i \in 1..Len(conds) |-> conds[i].type]

UniqueTypes(conds) ==
  \A i, j \in 1..Len(conds) : conds[i].type = conds[j].type => i = j

IsPrefix(a, b) ==
  /\ Len(a) <= Len(b)
  /\ \A i \in 1..Len(a) : a[i] = b[i]

ConditionsKeyedByType ==
  [][/\ UniqueTypes(store'.conditions)
     /\ \A w \in Workers : UniqueTypes(obj'[w].conditions)
     /\ (store.exists /\ store'.exists
           /\ store'.conditions # store.conditions) =>
          /\ IsPrefix(Types(store.conditions), Types(store'.conditions))
          /\ Len(store'.conditions) <= Len(store.conditions) + 1
          /\ Cardinality({i \in 1..Len(store'.conditions) :
                            \/ i > Len(store.conditions)
                            \/ store'.conditions[i] # store.conditions[i]})
               = 1]_vars

ConditionReplacedInPlace ==
  /\ store.exists
  /\ Len(store.conditions) > 1
  /\ store.conditions[1].observedGeneration
       > store.conditions[Len(store.conditions)].observedGeneration

----------------------------------------------------------------------------
(* C18: Both controllers follow the finalizer state machine.  In either    *)
(* controller an invocation whose Get succeeds enters the deletion branch  *)
(* when the resource has a deletion timestamp, and otherwise, when the     *)
(* resource lacks the finalizer, adds it and goes on to persist it with    *)
(* r.Update.                                                               *)
FollowsFinalizerStateMachine(w) ==
  /\ store.deleting =>
       branch'[w] \in {"DeletingCleanup", "DeletingNoFinalizer"}
  /\ (~store.deleting /\ ~HasFinalizer(store)) =>
       /\ branch'[w] = "AttachFinalizer"
       /\ pc'[w] = "update"
       /\ HasFinalizer(obj'[w])

BothFollowFinalizerStateMachine ==
  [][\A w \in Workers :
       Made(w, "Get", NilErr) => FollowsFinalizerStateMachine(w)]_vars

(* C18, amended: only MyResourceReconciler follows the finalizer state     *)
(* machine.  GuestbookReconciler has no deletion branch and no finalizer:  *)
(* whatever the deletion timestamp and the finalizers of the fetched       *)
(* Guestbook, it goes to the status write when Available is not current    *)
(* and returns otherwise, with the finalizers as fetched.                  *)
OnlyMyResourceFollowsFinalizerStateMachine ==
  [][\A w \in Workers :
       Made(w, "Get", NilErr) =>
         /\ My => FollowsFinalizerStateMachine(w)
         /\ ~My =>
              /\ branch'[w] = "Reconciling"
              /\ obj'[w].finalizers = store.finalizers
              /\ pc'[w] = IF AvailableIsCurrent(store) THEN "done"
                          ELSE "status"]_vars

GuestbookWroteStatusWhileDeleting ==
  /\ ~My
  /\ store.exists /\ store.deleting
  /\ \E w \in Workers :
       /\ pc[w] = "done"
       /\ fetched[w].deleting
       /\ trace[w] = <<Call("Get", "", NilErr),
                       Call("StatusUpdate", "", NilErr)>>

----------------------------------------------------------------------------
(* C19: Error propagation.  In both controllers a failed store operation   *)
(* (a Get that fails with anything but not-found, an Update, a             *)
(* Status().Update) is the last call of its invocation, and the invocation *)
(* returns that error, bare or wrapped; whenever Reconcile returns an      *)
(* error the result is empty.                                              *)
Wraps(outer, inner) ==
  /\ Len(outer) >= Len(inner)
  /\ SubSeq(outer, Len(outer) - Len(inner) + 1, Len(outer)) = inner

StoreFailure(c) ==
  /\ c.call \in {"Get", "Update", "StatusUpdate"}
  /\ c.err # NilErr
  /\ ~(c.call = "Get" /\ IsNotFound(c.err))

----------------------------------------------------------------------------
(* C20: scaffold_operator.sh argument contract.  If -h was not read and a  *)
(* required option (-n, -r, -k) was not given or an unknown option was     *)
(* read, the script runs no command (no directory, no kubebuilder) and,    *)
(* once the arguments are validated, has exited with status 1; if -h was   *)
(* read the script has exited with status 0 and has run no command; and    *)
(* domain, group and version that were not given are example.com, apps     *)
(* and v1.                                                                 *)
RequiredMissing == {"-n", "-r", "-k"} \ sh.given # {}

ArgumentContract ==
  sh.pc # "off" =>
    /\ ("-h" \notin sh.given /\ (RequiredMissing \/ sh.unknown)) =>
         /\ sh.ran = <<>>
         /\ sh.pc \in {"parse", "exit"}
         /\ sh.pc = "exit" => sh.status = 1
    /\ "-h" \in sh.given =>
         sh.pc = "exit" /\ sh.status = 0 /\ sh.ran = <<>>
    /\ "-d" \notin sh.given => sh.domain = "example.com"
    /\ "-g" \notin sh.given => sh.group = "apps"
    /\ "-v" \notin sh.given => sh.version = "v1"

----------------------------------------------------------------------------
(* C21: scaffold_operator.sh step order.  The commands run so far are a    *)
(* prefix of mkdir, kubebuilder init, kubebuilder create api, kubebuilder  *)
(* create webhook (there if and only if --webhook was given), make         *)
(* manifests generate; once a command has failed the script has exited     *)
(* with a non-zero status, that command is the last one run and nothing    *)
(* runs afterwards; the success message is printed only after all of these *)
(* commands ran and none failed.                                           *)
ScaffoldSteps ==
  <<"mkdir", "kubebuilder init", "kubebuilder create api">>
    \o (IF "--webhook" \in sh.given THEN <<"kubebuilder create webhook">>
        ELSE <<>>)
    \o <<"make manifests generate">>

StepOrder ==
  [][/\ IsPrefix(sh'.ran, ScaffoldSteps')
     /\ sh'.failed =>
          sh'.pc = "exit" /\ sh'.status # 0 /\ ~sh'.success
     /\ sh.failed => sh' = sh
     /\ sh'.success =>
          /\ sh'.ran = ScaffoldSteps'
          /\ ~sh'.failed
          /\ sh'.pc = "exit" /\ sh'.status = 0]_vars

ScaffoldedWithWebhook ==
  /\ sh.success
  /\ Len(sh.ran) = 5
  /\ sh.ran[4] = "kubebuilder create webhook"

----------------------------------------------------------------------------
(* C22: Branch selection is total.  The state an invocation of             *)
(* MyResourceReconciler enters is fixed by what its Get finds: NotFound    *)
(* when the resource is gone; otherwise Deleting-Cleanup or                *)
(* Deleting-NoFinalizer when the deletion timestamp is set, by the         *)
(* finalizer, whether or not the finalizer is there (deletion comes        *)
(* first); otherwise AttachFinalizer without the finalizer and Reconciling *)
(* with it.  The invocation stays in that state until it returns.          *)
StateTable(found, deleting, marker) ==
  IF ~found THEN "NotFound"
  ELSE IF deleting /\ marker THEN "DeletingCleanup"
  ELSE IF deleting THEN "DeletingNoFinalizer"
  ELSE IF ~marker THEN "AttachFinalizer"
  ELSE "Reconciling"

BranchSelectionIsTotal ==
  [][My =>
       \A w \in Workers :
         /\ (pc[w] = "idle" /\ pc'[w] # "idle"
               /\ trace'[w][1].err \in {NilErr, ErrNotFound}) =>
              branch'[w] = StateTable(store.exists, store.deleting,
                                      HasFinalizer(store))
         /\ (pc[w] # "idle" /\ pc'[w] # "idle") =>
              branch'[w] = branch[w]]_vars

AllBranchesEntered ==
  /\ My
  /\ {"Ready", "Deleted"} \subseteq events
  /\ creates = 1
  /\ \E w \in Workers :
       /\ branch[w] = "DeletingNoFinalizer"
       /\ pc[w] = "done"
       /\ fetched[w].conditions # <<>>

----------------------------------------------------------------------------
(* C23: Nothing is added to a deleting resource.  No step of               *)
(* MyResourceReconciler adds the finalizer to, or changes the status of, a *)
(* stored resource whose deletion timestamp is set; a write issued from a  *)
(* copy fetched before the deletion timestamp was set fails (conflict or   *)
(* server error) and leaves the store as it is.                            *)
NothingAddedWhileDeleting ==
  [][My =>
       /\ (store.exists /\ store.deleting /\ store'.exists) =>
            /\ HasFinalizer(store') => HasFinalizer(store)
            /\ StatusOf(store') = StatusOf(store)
       /\ \A w \in Workers :
            (Writes(w) /\ store.exists /\ store.deleting
               /\ ~fetched[w].deleting) =>
              /\ trace'[w][Len(trace'[w])].err \in {ErrConflict, ErrServer}
              /\ store' = store]_vars

AttachRejectedAfterDelete ==
  /\ My
  /\ store.exists /\ store.deleting /\ ~HasFinalizer(store)
  /\ \E w \in Workers :
       /\ pc[w] = "done"
       /\ branch[w] = "AttachFinalizer"
       /\ ~fetched[w].deleting
       /\ trace[w] = <<Call("Get", "", NilErr),
                       Call("Update", "", ErrConflict)>>

----------------------------------------------------------------------------
(* C24: Overlap loses updates.  When an invocation writes from a copy that *)
(* it fetched before an overlapping invocation persisted a write of its    *)
(* own (finalizer attach, finalizer removal or status), the store takes    *)
(* the write, unless the server fails, and so the write of the other       *)
(* invocation is overwritten.                                              *)
Persisted(t) ==
  HasCall(t, "Update", NilErr) \/ HasCall(t, "StatusUpdate", NilErr)

(* w writes from a copy that misses what overlapping v has persisted *)
Races(w, v) ==
  /\ w # v
  /\ Writes(w)
  /\ Persisted(trace[v])
  /\ store.exists
  /\ fetched[w].resourceVersion <= fetched[v].resourceVersion
  /\ <<store.finalizers, StatusOf(store)>>
       # <<fetched[w].finalizers, StatusOf(fetched[w])>>

----------------------------------------------------------------------------
(* C25: Convergence on create.  With a fair dispatcher, store failures     *)
(* that do not last and external edits that stop, a created MyResource     *)
(* eventually is stored with the finalizer, Ready=True and                 *)
(* status.observedGeneration equal to its generation.  Without an edit in  *)
(* between it takes two successful invocations: the one that finds the     *)
(* resource without the finalizer leaves it with the finalizer and without *)
(* Ready=True, and the one that finds the finalizer leaves it converged.   *)
Converged ==
  /\ HasFinalizer(store)
  /\ IsStatusConditionTrue(store.conditions, TypeReady)
  /\ store.observedGeneration = store.generation

ConvergesOnCreate ==
  /\ (My /\ store.exists) ~> Converged
  /\ [][My =>
          \A w \in Workers :
            (/\ Returns(w)
             /\ fetched'[w].exists
             /\ fetched'[w].generation = store'.generation
             /\ ret'[w].err = NilErr) =>
              IF HasFinalizer(fetched'[w])
              THEN Converged'
              ELSE /\ HasFinalizer(store')
                   /\ ~IsStatusConditionTrue(store'.conditions, TypeReady)
                   /\ ~Converged']_vars

ConvergedAfterFailure ==
  /\ My
  /\ Converged
  /\ events = {"Ready"}
  /\ prev.returned
  /\ prev.err = WrapStatusErr(ErrServer)
  /\ \A w \in Workers : pc[w] = "idle"

----------------------------------------------------------------------------
(* C26: Deletion completes.  With a fair dispatcher and cleanup and store  *)
(* failures that do not last, a MyResource that carries the finalizer and  *)
(* a deletion timestamp is eventually gone from the store.  A resource     *)
(* that carries the finalizer leaves the store only in the step of a       *)
(* successful Update that removes the finalizer after a successful         *)
(* cleanup, and a Get for the key that is gone returns success (or the     *)
(* server error).                                                          *)
DeletionCompletes ==
  /\ (My /\ store.exists /\ store.deleting /\ HasFinalizer(store))
       ~> ~store.exists
  /\ [][My =>
          /\ (HasFinalizer(store) /\ ~store'.exists) =>
               \E w \in Workers :
                 /\ Made(w, "Update", NilErr)
                 /\ ~HasFinalizer(obj[w])
                 /\ HasCall(trace[w], "Cleanup", NilErr)
          /\ \A w \in Workers :
               (pc[w] = "idle" /\ pc'[w] # "idle" /\ ~store.exists) =>
                 /\ pc'[w] = "done"
                 /\ ret'[w] \in {Success(EmptyResult), Failure(ErrServer)}
                 /\ store' = store]_vars

DeletedAfterCleanupFailure ==
  /\ My
  /\ ~store.exists
  /\ failures > 0
  /\ "Deleted" \in events
  /\ \E w \in Workers :
       /\ pc[w] = "done"
       /\ branch[w] = "NotFound"
       /\ ret[w] = Success(EmptyResult)

----------------------------------------------------------------------------
(* C27: Not-ready outcome of reconcileNormal.  When the readiness check is *)
(* false, the status write that succeeds stores the Degraded condition     *)
(* with status True, reason NotReady and the generation of the resource    *)
(* as its observedGeneration, and the invocation then returns a nil error  *)
(* and a requeue-after of 30 seconds.                                      *)
NotReadyRequeuesAfter30 ==
  [][\A w \in Workers :
       (My /\ branch[w] = "Reconciling" /\ ~ready[w]) =>
         /\ Made(w, "StatusUpdate", NilErr) =>
              /\ FindStatusCondition(store'.conditions, TypeDegraded)
                   = << Condition(TypeDegraded, "True", "NotReady",
                                  store'.generation) >>
              /\ obj[w].generation = store'.generation
         /\ (Returns(w) /\ HasCall(trace[w], "StatusUpdate", NilErr)) =>
              ret'[w] = [result |-> [Requeue |-> FALSE, RequeueAfter |-> 30],
                         err |-> NilErr]]_vars

NotReadyAtSecondGeneration ==
  /\ My
  /\ store.exists
  /\ store.generation = 2
  /\ FindStatusCondition(store.conditions, TypeDegraded)
       = << Condition(TypeDegraded, "True", "NotReady", 2) >>
  /\ \E w \in Workers :
       /\ pc[w] = "done"
       /\ branch[w] = "Reconciling"
       /\ ~ready[w]
       /\ ret[w].err = NilErr
       /\ ret[w].result.RequeueAfter = 30

----------------------------------------------------------------------------
(* C28: Finalizer-attach failure.  When the Update that persists the added *)
(* finalizer fails, the invocation returns that error with an empty result *)
(* in the same step, having called nothing but Get and Update; the store   *)
(* is left as it was and holds no resource with the finalizer.  The        *)
(* invocation that follows a return with an error on a store without the   *)
(* finalizer, when its Get succeeds, is in the AttachFinalizer state again *)
(* and issues the Update with the finalizer added.                         *)
AttachFailureIsReturned ==
  [][My =>
      \A w \in Workers :
        /\ (branch[w] = "AttachFinalizer" /\ pc[w] = "update"
              /\ ~Made(w, "Update", NilErr) /\ Writes(w)) =>
             /\ pc'[w] = "done"
             /\ ret'[w].err = trace'[w][Len(trace'[w])].err
             /\ ret'[w].err # NilErr
             /\ ret'[w].result = [Requeue |-> FALSE, RequeueAfter |-> 0]
             /\ store' = store
             /\ ~HasFinalizer(store')
             /\ events' = events
             /\ ~Issued(trace'[w], "StatusUpdate")
             /\ ~Issued(trace'[w], "Event")
             /\ Len(trace'[w]) = 2
        /\ (/\ pc[w] = "idle"
            /\ prev.returned
            /\ prev.err # NilErr
            /\ ~HasFinalizer(prev.stored)
            /\ trace'[w] = << Call("Get", "", NilErr) >>) =>
             /\ branch'[w] = "AttachFinalizer"
             /\ pc'[w] = "update"
             /\ obj'[w] = AddFinalizer(store, myFinalizerName)]_vars

AttachRetriedAfterFailure ==
  /\ My
  /\ prev.returned
  /\ prev.err = ErrConflict
  /\ store.exists
  /\ ~HasFinalizer(store)
  /\ \E w \in Workers :
       /\ pc[w] = "update"
       /\ branch[w] = "AttachFinalizer"
       /\ trace[w] = << Call("Get", "", NilErr) >>

----------------------------------------------------------------------------
(* C29: Finalizer-removal persist failure.  When cleanup succeeded and the *)
(* Update that persists the resource without the finalizer fails, the      *)
(* invocation returns that error with an empty result in the same step,    *)
(* records no event, and the store is left as it was: the resource is      *)
(* there, deleting, with the finalizer.  The invocation that follows a     *)
(* return with an error on such a store, when its Get succeeds, is in      *)
(* Deleting-Cleanup again and runs the cleanup again.                      *)
RemovalFailureIsReturned ==
  [][My =>
      \A w \in Workers :
        /\ (branch[w] = "DeletingCleanup" /\ pc[w] = "update"
              /\ ~Made(w, "Update", NilErr) /\ Writes(w)) =>
             /\ HasCall(trace[w], "Cleanup", NilErr)
             /\ pc'[w] = "done"
             /\ ret'[w].err = trace'[w][Len(trace'[w])].err
             /\ ret'[w].err # NilErr
             /\ ret'[w].result = [Requeue |-> FALSE, RequeueAfter |-> 0]
             /\ store' = store
             /\ HasFinalizer(store')
             /\ store'.deleting
             /\ events' = events
             /\ ~Issued(trace'[w], "Event")
        /\ (/\ pc[w] = "idle"
            /\ prev.returned
            /\ prev.err # NilErr
            /\ HasFinalizer(prev.stored)
            /\ prev.stored.deleting
            /\ trace'[w] = << Call("Get", "", NilErr) >>) =>
             /\ branch'[w] = "DeletingCleanup"
             /\ pc'[w] = "cleanup"
             /\ obj'[w] = store]_vars

CleanupRanTwice ==
  /\ My
  /\ prev.returned
  /\ prev.err = ErrConflict
  /\ HasFinalizer(store)
  /\ store.deleting
  /\ failures = 0
  /\ \E w \in Workers :
       /\ pc[w] = "update"
       /\ branch[w] = "DeletingCleanup"
       /\ trace[w] = << Call("Get", "", NilErr), Call("Cleanup", "", NilErr) >>

----------------------------------------------------------------------------
(* C30: Event ordering.  MyResourceReconciler records an event only as the *)
(* call that follows the successful store write of its branch (Update for  *)
(* Deleted, Status().Update for Ready and NotReady) in an invocation with  *)
(* no failed call; the events change in no other step; the invocation      *)
(* returns in that step with a nil error and the result of its branch,     *)
(* which is a function of the branch and the readiness alone; and an       *)
(* invocation that returns an error has recorded no event.                 *)
BranchWrite(reason) == IF reason = "Deleted" THEN "Update" ELSE "StatusUpdate"

BranchEvent(w) ==
  IF branch[w] = "DeletingCleanup" THEN "Deleted"
  ELSE IF branch[w] = "Reconciling" /\ ready[w] THEN "Ready"
  ELSE IF branch[w] = "Reconciling" THEN "NotReady"
  ELSE "None"

BranchResult(reason) ==
  IF reason = "Deleted" THEN [Requeue |-> FALSE, RequeueAfter |-> 0]
  ELSE IF reason = "Ready" THEN [Requeue |-> FALSE, RequeueAfter |-> 300]
  ELSE [Requeue |-> FALSE, RequeueAfter |-> 30]

EventsFollowTheWrite ==
  [][My =>
      /\ events' # events =>
           \E w \in Workers :
             /\ Recorded(w, BranchEvent(w))
             /\ events' = events \cup {BranchEvent(w)}
      /\ \A w \in Workers :
           /\ (Len(trace'[w]) = Len(trace[w]) + 1
                 /\ trace'[w][Len(trace'[w])].call = "Event") =>
                /\ Recorded(w, BranchEvent(w))
                /\ BranchEvent(w) \in {"Ready", "NotReady", "Deleted"}
                /\ trace[w][Len(trace[w])]
                     = Call(BranchWrite(BranchEvent(w)), "", NilErr)
                /\ \A i \in 1..Len(trace[w]) : trace[w][i].err = NilErr
                /\ pc'[w] = "done"
                /\ ret'[w] = [result |-> BranchResult(BranchEvent(w)),
                              err |-> NilErr]
                /\ store' = store
           /\ (Returns(w) /\ ret'[w].err # NilErr) =>
                ~Issued(trace'[w], "Event")]_vars

AllThreeEventsRecorded ==
  /\ My
  /\ events = {"Ready", "NotReady", "Deleted"}
  /\ ~store.exists
  /\ \E w \in Workers :
       /\ pc[w] = "done"
       /\ ret[w] = Success(EmptyResult)
       /\ trace[w] = << Call("Get", "", NilErr), Call("Cleanup", "", NilErr),
                        Call("Update", "", NilErr),
                        Call("Event", "Deleted", NilErr) >>

----------------------------------------------------------------------------
(* C31: GuestbookReconciler generation tagging.  When an invocation of     *)
(* GuestbookReconciler that fetched the Guestbook returns a nil error, the *)
(* stored Guestbook has the condition Available with status True and the   *)
(* stored generation as its observedGeneration; and every status write it  *)
(* issues carries Available tagged with the generation it fetched, which   *)
(* is the stored generation whenever the write is accepted.                *)
Gb == kind = "Guestbook"

GuestbookTagsGeneration ==
  [][Gb =>
      \A w \in Workers :
        /\ (Returns(w) /\ branch'[w] = "Reconciling"
              /\ ret'[w].err = NilErr) =>
             /\ store'.exists
             /\ AvailableIsCurrent(store')
        /\ (pc[w] = "status" /\ Writes(w)) =>
             /\ FindStatusCondition(obj[w].conditions, TypeAvailable)
                  = << Condition(TypeAvailable, "True", "Reconciled",
                                 fetched[w].generation) >>
             /\ obj[w].generation = fetched[w].generation
             /\ Made(w, "StatusUpdate", NilErr) =>
                  /\ store'.generation = fetched[w].generation
                  /\ store'.conditions = obj[w].conditions]_vars

GuestbookRetaggedAfterEdit ==
  /\ Gb
  /\ store.exists
  /\ store.generation = 2
  /\ AvailableIsCurrent(store)
  /\ \E w \in Workers :
       /\ pc[w] = "done"
       /\ ret[w] = Success(EmptyResult)
       /\ fetched[w].conditions # <<>>
       /\ trace[w] = << Call("Get", "", NilErr),
                        Call("StatusUpdate", "", NilErr) >>

----------------------------------------------------------------------------
(* C32: GuestbookReconciler quiescence, with every stored change           *)
(* delivering a Reconcile Request.  An invocation that fetched the         *)
(* Guestbook goes to the status write exactly when Available is missing,   *)
(* not True or tagged with another generation, and otherwise returns       *)
(* success in that step without a write; a status write is accepted only   *)
(* on a resource whose Available is not current and leaves it current;     *)
(* Available stops being current only by a change of the generation or of  *)
(* the resource; and under the fair dispatcher, once creations and spec    *)
(* edits have stopped, the controller comes to rest for good: nothing      *)
(* queued, no invocation in flight, Available current.                     *)
GuestbookQuiesces ==
  /\ [][Gb =>
          /\ \A w \in Workers :
               /\ (pc[w] = "idle"
                     /\ trace'[w] = << Call("Get", "", NilErr) >>) =>
                    /\ pc'[w] = "status" <=> ~AvailableIsCurrent(store)
                    /\ pc'[w] # "status" =>
                         /\ pc'[w] = "done"
                         /\ ret'[w] = Success(EmptyResult)
                    /\ store' = store
               /\ Made(w, "StatusUpdate", NilErr) =>
                    /\ ~AvailableIsCurrent(store)
                    /\ AvailableIsCurrent(store')
                    /\ store'.generation = store.generation
          /\ (AvailableIsCurrent(store) /\ ~AvailableIsCurrent(store')) =>
               \/ ~store'.exists
               \/ store'.generation # store.generation]_vars
  /\ <>[](Gb => /\ ~queued
                 /\ \A w \in Workers : pc[w] = "idle"
                 /\ store.exists => AvailableIsCurrent(store))

GuestbookAtRest ==
  /\ Gb
  /\ store.generation = 2
  /\ AvailableIsCurrent(store)
  /\ ~queued
  /\ prev.returned
  /\ prev.stored = store
  /\ \E w \in Workers :
       /\ pc[w] = "done"
       /\ trace[w] = << Call("Get", "", NilErr) >>
       /\ ret[w] = Success(EmptyResult)

----------------------------------------------------------------------------
(* C33: GuestbookReconciler frame.  The only calls of an invocation are    *)
(* Get and Status().Update; the object it sends is the fetched one with    *)
(* the Available condition set and nothing else changed; a step of an      *)
(* invocation that changes the stored Guestbook is a successful            *)
(* Status().Update and changes the Available condition (and the            *)
(* resourceVersion) only: generation, deletion timestamp, finalizers,      *)
(* observedGeneration and the conditions of other types stay as they       *)
(* were; no event is recorded; and every return, with or without an        *)
(* error, carries a result with no requeue.                                *)
InvocationStep(w) == trace'[w] # trace[w] /\ trace'[w] # <<>>

WithAvailable(o) ==
  [o EXCEPT !.conditions =
     SetStatusCondition(@, Condition(TypeAvailable, "True", "Reconciled",
                                     o.generation))]

GuestbookFrame ==
  [][Gb =>
      /\ events' = events
      /\ \A w \in Workers :
           /\ \A i \in 1..Len(trace'[w]) :
                trace'[w][i].call \in {"Get", "StatusUpdate"}
           /\ pc'[w] = "status" => obj'[w] = WithAvailable(fetched'[w])
           /\ (InvocationStep(w) /\ store' # store) =>
                /\ Made(w, "StatusUpdate", NilErr)
                /\ store' = [WithAvailable(store) EXCEPT
                               !.resourceVersion = store'.resourceVersion]
                /\ \A i \in 1..Len(store.conditions) :
                     store.conditions[i].type # TypeAvailable =>
                       store'.conditions[i] = store.conditions[i]
           /\ Returns(w) =>
                ret'[w].result = [Requeue |-> FALSE, RequeueAfter |-> 0]]_vars

AvailableAddedBesideOthers ==
  /\ Gb
  /\ store.exists
  /\ store.generation = 2
  /\ store.finalizers = {foreignFinalizer}
  /\ Len(store.conditions) = 2
  /\ store.conditions[1].type = TypeProgressing
  /\ AvailableIsCurrent(store)
  /\ \E w \in Workers :
       /\ pc[w] = "done"
       /\ trace[w] = << Call("Get", "", NilErr),
                        Call("StatusUpdate", "", NilErr) >>
       /\ Len(fetched[w].conditions) = 1

----------------------------------------------------------------------------
(* C34: Bounded invocation.  In both controllers an invocation starts with *)
(* its one Get, makes every kind of call at most once, issues at most one  *)
(* store write (an Update or a Status().Update, never both), and each of   *)
(* its steps moves it strictly forward in the order Get, cleanup, write,   *)
(* event, return: there is no step back to a call already made, so it      *)
(* returns after at most four calls.                                       *)
CallsOf(t, calls) == {i \in 1..Len(t) : t[i].call \in calls}

Rank(p) ==
  IF p = "idle" THEN 0
  ELSE IF p = "cleanup" THEN 1
  ELSE IF p \in {"update", "status"} THEN 2
  ELSE IF p = "event" THEN 3
  ELSE 4

InvocationIsBounded ==
  [][\A w \in Workers :
       /\ InvocationStep(w) =>
            /\ CallsOf(trace'[w], {"Get"}) = {1}
            /\ Cardinality(CallsOf(trace'[w], {"Update", "StatusUpdate"})) <= 1
            /\ Cardinality(CallsOf(trace'[w], {"Cleanup"})) <= 1
            /\ Cardinality(CallsOf(trace'[w], {"Event"})) <= 1
            /\ Len(trace'[w]) <= 4
            /\ Len(trace'[w]) = Len(trace[w]) + 1
            /\ Rank(pc'[w]) > Rank(pc[w])
       /\ (pc[w] # "idle" /\ pc'[w] # pc[w]) =>
            \/ InvocationStep(w)
            \/ pc'[w] = "idle"]_vars

LongestInvocation ==
  \E w \in Workers :
    /\ pc[w] = "done"
    /\ ret[w] = Success(EmptyResult)
    /\ Len(trace[w]) = 4
    /\ CallsOf(trace[w], {"Update", "StatusUpdate"}) = {3}

----------------------------------------------------------------------------
(* C35: Ready and Degraded exclude each other.  With a readiness check     *)
(* that can find either value from one invocation to the next, the stored  *)
(* status of a MyResource never has the Ready condition and the Degraded   *)
(* condition both with status True.                                        *)
ReadyExcludesDegraded ==
  (My /\ store.exists) =>
    ~(/\ IsStatusConditionTrue(store.conditions, TypeReady)
      /\ IsStatusConditionTrue(store.conditions, TypeDegraded))

====
